---------------------------- MODULE Spec2Model ----------------------------
(***************************************************************************)
(* Product catalogue routes (routes/productRoutes.js), the Product schema  *)
(* (models/Product.js) and the server's error handler: create, update and  *)
(* delete of product records with an image asset in S3 and a record in     *)
(* MongoDB.                                                                *)
(*                                                                         *)
(* Numbers.  A JavaScript number is an IEEE-754 double.  sellPrice is kept *)
(* in the state as the decimal numeral the request carried, in thousandths *)
(* (300 stands for parseFloat("0.30")), and a value produced by            *)
(* parseFloat(x.toFixed(2)) as its count of hundredths (31 stands for      *)
(* parseFloat("0.31")); the arithmetic in between (product, sum, toFixed)  *)
(* is done on doubles, represented exactly as a mantissa (a little-endian  *)
(* bit sequence) and a binary exponent.                                    *)
(***************************************************************************)
EXTENDS Integers, Sequences, FiniteSets, TLC

(***************************************************************************)
(* Natural numbers of arbitrary size as little-endian bit sequences with   *)
(* no leading zero bit.  Sums, products and quotients are computed on      *)
(* limbs of LimbBits bits, so that every intermediate value fits a 32-bit *)
(* integer.                                                                *)
(***************************************************************************)
Pow2 == <<1, 2, 4, 8, 16, 32, 64, 128, 256, 512>>

LimbBits == Len(Pow2)

LimbBase == 2 * Pow2[LimbBits]

RECURSIVE NatToBits(_)
NatToBits(n) == IF n = 0 THEN <<>> ELSE <<n % 2>> \o NatToBits(n \div 2)

RECURSIVE BitsToNat(_)
BitsToNat(b) == IF b = <<>> THEN 0 ELSE b[1] + 2 * BitsToNat(Tail(b))

Strip(b) ==
    LET ones == {i \in 1..Len(b) : b[i] = 1}
    IN  IF ones = {} THEN <<>>
        ELSE SubSeq(b, 1, CHOOSE i \in ones : \A j \in ones : j <= i)

BitAt(b, i) == IF i >= 1 /\ i <= Len(b) THEN b[i] ELSE 0

ToLimbs(b) ==
    [j \in 1..((Len(b) + LimbBits - 1) \div LimbBits) |->
        LET k == LimbBits * (j - 1)
        IN  BitAt(b, k + 1) + 2 * BitAt(b, k + 2) + 4 * BitAt(b, k + 3)
            + 8 * BitAt(b, k + 4) + 16 * BitAt(b, k + 5) + 32 * BitAt(b, k + 6)
            + 64 * BitAt(b, k + 7) + 128 * BitAt(b, k + 8)
            + 256 * BitAt(b, k + 9) + 512 * BitAt(b, k + 10)]

FromLimbs(l) ==
    Strip([i \in 1..(LimbBits * Len(l)) |->
             (l[((i - 1) \div LimbBits) + 1] \div Pow2[((i - 1) % LimbBits) + 1]) % 2])

LimbAt(l, i) == IF i >= 1 /\ i <= Len(l) THEN l[i] ELSE 0

(* Carry propagation over column values col(1) .. col(n).                  *)
RECURSIVE Carry(_, _, _, _)
Carry(col, i, n, c) ==
    IF i > n THEN (IF c = 0 THEN <<>> ELSE <<c % LimbBase>> \o Carry(col, i, n, c \div LimbBase))
    ELSE LET s == col[i] + c
         IN  <<s % LimbBase>> \o Carry(col, i + 1, n, s \div LimbBase)

AddB(a, b) ==
    LET la == ToLimbs(a)
        lb == ToLimbs(b)
        n  == IF Len(la) > Len(lb) THEN Len(la) ELSE Len(lb)
    IN  FromLimbs(Carry([i \in 1..n |-> LimbAt(la, i) + LimbAt(lb, i)], 1, n, 0))

ShiftL(a, k) == IF a = <<>> THEN <<>> ELSE [i \in 1..k |-> 0] \o a

ShiftR(a, k) == IF k >= Len(a) THEN <<>> ELSE SubSeq(a, k + 1, Len(a))

(* Sum of la[i] * lb[k + 1 - i] for i in lo..hi: column k of the product.  *)
RECURSIVE Column(_, _, _, _, _)
Column(la, lb, k, lo, hi) ==
    IF lo > hi THEN 0
    ELSE la[lo] * LimbAt(lb, k + 1 - lo) + Column(la, lb, k, lo + 1, hi)

MulB(a, b) ==
    LET la == ToLimbs(a)
        lb == ToLimbs(b)
        n  == Len(la) + Len(lb)
    IN  FromLimbs(Carry([k \in 1..n |-> Column(la, lb, k, 1, Len(la))], 1, n, 0))

(* Long division of limbs by a small divisor, most significant limb first: *)
(* <<quotient limbs, most significant first, remainder>>.                  *)
RECURSIVE DivFrom(_, _, _, _)
DivFrom(l, d, i, r) ==
    IF i < 1 THEN <<<<>>, r>>
    ELSE LET r2   == LimbBase * r + l[i]
             rest == DivFrom(l, d, i - 1, r2 % d)
         IN  <<<<r2 \div d>> \o rest[1], rest[2]>>

Reverse(s) == [i \in 1..Len(s) |-> s[Len(s) + 1 - i]]

DivSmall(a, d) ==
    LET l == ToLimbs(a)
        r == DivFrom(l, d, Len(l), 0)
    IN  <<FromLimbs(Reverse(r[1])), r[2]>>

(***************************************************************************)
(* IEEE-754 doubles: [m |-> mantissa bits, e |-> exponent], value m * 2^e. *)
(* Prices are far from the subnormal and overflow ranges.                  *)
(***************************************************************************)
MantissaBits == 53

(* Round-to-nearest, ties-to-even, of (q + a fraction that is nonzero iff  *)
(* sticky) * 2^e to MantissaBits significant bits.                         *)
RoundToDouble(q, sticky, e) ==
    IF Len(q) <= MantissaBits THEN [m |-> q, e |-> e]
    ELSE LET drop  == Len(q) - MantissaBits
             kept  == ShiftR(q, drop)
             guard == q[drop]
             rest  == sticky \/ \E i \in 1..(drop - 1) : q[i] = 1
             up    == guard = 1 /\ (rest \/ kept[1] = 1)
         IN  [m |-> IF up THEN AddB(kept, <<1>>) ELSE kept, e |-> e + drop]

(* The double nearest to n/d (d < 2^17): what parseFloat returns for a     *)
(* decimal numeral, and what a decimal literal of the source denotes.  The *)
(* quotient is taken with enough extra bits to have more than MantissaBits.*)
DoubleOf(n, d) ==
    LET scale == MantissaBits + 17
        qr    == DivSmall(ShiftL(NatToBits(n), scale), d)
    IN  RoundToDouble(qr[1], qr[2] # 0, 0 - scale)

MulD(x, y) == RoundToDouble(MulB(x.m, y.m), FALSE, x.e + y.e)

AddD(x, y) ==
    LET emin == IF x.e < y.e THEN x.e ELSE y.e
    IN  RoundToDouble(AddB(ShiftL(x.m, x.e - emin), ShiftL(y.m, y.e - emin)),
                      FALSE, emin)

(* Number.prototype.toFixed(2) followed by parseFloat, as hundredths: the  *)
(* integer n for which n/100 - x is closest to zero, the larger on a tie,  *)
(* that is floor(x * 100 + 1/2), on the exact value of the double.         *)
ToFixed2(x) ==
    IF x.e >= 0 THEN BitsToNat(ShiftL(MulB(x.m, NatToBits(100)), x.e))
    ELSE LET k == 0 - x.e
         IN  BitsToNat(ShiftR(AddB(MulB(x.m, NatToBits(200)),
                                   ShiftL(<<1>>, k)), k + 1))

(***************************************************************************)
(* Values.  A text that the code splits on '/' or sends through a URL is   *)
(* kept as the sequence of its segments (the empty string is one empty     *)
(* segment); a segment is [t, s]: the text s, prefixed by "<t>-" when      *)
(* t >= 0.  The text of a segment is a sequence of chunks: a run of        *)
(* characters that URI escaping leaves alone, or one character that it     *)
(* rewrites.  null is the empty sequence, which no string splits to.       *)
(***************************************************************************)
Undefined == "undefined"

Seg(s) == [t |-> -1, s |-> s]

TsSeg(t, s) == [t |-> t, s |-> s]

NullUrl == <<>>

EmptyString == <<Seg(<<>>)>>

(* JavaScript truthiness of a string-or-null value.                        *)
Truthy(url) == url # NullUrl /\ url # EmptyString

(* A decimal numeral of a request, in thousandths, or a text that is no    *)
(* number.                                                                 *)
Numeral(mills) == [kind |-> "numeral", mills |-> mills]

NotANumber == [kind |-> "text", mills |-> 0]

(***************************************************************************)
(* Bounds of the model.                                                    *)
(***************************************************************************)
MaxRecords == 1

MaxClock == 2

MaxCents == 40

(* The catalogue and the clock of the listing specification.               *)
MaxListed == 3

MaxListClock == 3

(* The chunks of a file name's segment in the key computations.            *)
MaxNameChunks == 2

(* Two requests are in flight at a time: the concurrency the properties    *)
(* of the routes speak of.                                                 *)
Procs == {1, 2}

(* 0 is a string that is no ObjectId; the others are well-formed.          *)
BadId == 0

Ids == 0..MaxRecords

(***************************************************************************)
(* multer: routes/productRoutes.js, upload.                                *)
(***************************************************************************)
FileSizeLimit == 5 * 1024 * 1024

(* path.basename, which busboy applies to the filename of a file part      *)
(* (multer sets no preservePath).                                          *)
basename(filename) ==
    IF filename = <<>> THEN <<>> ELSE <<filename[Len(filename)]>>

(* req.file: originalname and mimetype are kept as their '/'-separated     *)
(* segments.                                                               *)
NoFile == [present |-> FALSE, originalname |-> <<>>, mimetype |-> <<>>, size |-> 0]

File(name, mime, size) ==
    [present |-> TRUE, originalname |-> basename(name), mimetype |-> mime,
     size |-> size]

(* fileFilter: file.mimetype.startsWith('image/').                         *)
fileFilter(file) == Len(file.mimetype) >= 2 /\ file.mimetype[1] = "image"

(* multer without its limits.                                              *)
uploadSingle_NoSizeLimit(file) ==
    IF ~file.present THEN "ok"
    ELSE IF ~fileFilter(file) THEN "Only image files are allowed"
    ELSE "ok"

(* upload.single('image'): "ok", or the error handed to next(err).         *)
uploadSingle(file) ==
    IF ~file.present THEN "ok"
    ELSE IF ~fileFilter(file) THEN "Only image files are allowed"
    ELSE IF file.size > FileSizeLimit THEN "LIMIT_FILE_SIZE"
    ELSE "ok"

(***************************************************************************)
(* express-validator: routes/productRoutes.js, validateProduct.            *)
(***************************************************************************)
RECURSIVE TrimLeft(_)
TrimLeft(s) == IF s # <<>> /\ s[1] = " " THEN TrimLeft(Tail(s)) ELSE s

RECURSIVE TrimRight(_)
TrimRight(s) ==
    IF s # <<>> /\ s[Len(s)] = " " THEN TrimRight(SubSeq(s, 1, Len(s) - 1)) ELSE s

trim(s) == TrimRight(TrimLeft(s))

isFloatMin0(v) == v.kind = "numeral" /\ v.mills >= 0

ProductTypes == {"Veg", "Non-Veg", "Beverage", "Starter", "Dessert", "Breads"}

PrimaryUnits == {"piece", "kg", "gram", ""}

(* The request body after the sanitizers ran: trim() rewrites itemName.    *)
Sanitized(body) == [body EXCEPT !.itemName = trim(body.itemName)]

(* The validators without the primaryUnit rule.                            *)
validateProduct_NoUnitRule(body) ==
    (IF trim(body.itemName) = <<>> THEN {"itemName"} ELSE {})
    \cup (IF isFloatMin0(body.sellPrice) THEN {} ELSE {"sellPrice"})
    \cup (IF body.type \in ProductTypes THEN {} ELSE {"type"})

(* validationResult(req): the fields with an error.                        *)
validateProduct(body) ==
    (IF trim(body.itemName) = <<>> THEN {"itemName"} ELSE {})
    \cup (IF isFloatMin0(body.sellPrice) THEN {} ELSE {"sellPrice"})
    \cup (IF body.type \in ProductTypes THEN {} ELSE {"type"})
    \cup (IF body.primaryUnit = Undefined \/ body.primaryUnit \in PrimaryUnits
          THEN {} ELSE {"primaryUnit"})

(***************************************************************************)
(* Pricing: routes/productRoutes.js, the GST computation of POST and PUT.  *)
(***************************************************************************)
parseFloat(v) == DoubleOf(v.mills, 1000)

CreatePricing(sellPrice, gstEnabled) ==
    LET gstPercentage  == IF gstEnabled = "true" THEN 5 ELSE 0
        sellPriceFloat == parseFloat(sellPrice)
        gstAmount      == IF gstEnabled = "true"
                          THEN ToFixed2(MulD(sellPriceFloat, DoubleOf(5, 100)))
                          ELSE 0
        totalPrice     == ToFixed2(AddD(sellPriceFloat, DoubleOf(gstAmount, 100)))
    IN  [gstPercentage |-> gstPercentage, sellPriceFloat |-> sellPrice.mills,
         gstAmount |-> gstAmount, totalPrice |-> totalPrice]

UpdatePricing(sellPrice, gstEnabled) ==
    LET gstPercentage  == IF gstEnabled = "true" THEN 5 ELSE 0
        sellPriceFloat == parseFloat(sellPrice)
        gstAmount      == IF gstEnabled = "true"
                          THEN ToFixed2(MulD(sellPriceFloat, DoubleOf(5, 100)))
                          ELSE 0
        totalPrice     == ToFixed2(AddD(sellPriceFloat, DoubleOf(gstAmount, 100)))
    IN  [gstPercentage |-> gstPercentage, sellPriceFloat |-> sellPrice.mills,
         gstAmount |-> gstAmount, totalPrice |-> totalPrice]

(***************************************************************************)
(* The Product schema: models/Product.js.  Mongoose schemas are strict: a  *)
(* document holds the schema's paths (and _id, createdAt), nothing else.   *)
(***************************************************************************)
SchemaPaths ==
    {"itemName", "sellPrice", "primaryUnit", "customUnit", "type",
     "gstEnabled", "totalPrice", "imageUrl"}

DocPaths == SchemaPaths \cup {"_id", "createdAt"}

StringPaths == {"primaryUnit", "customUnit", "type"}

IsUndefined(path, v) == path \in StringPaths /\ v = Undefined

(* new Product(obj), followed by the timestamps of save(): a path takes    *)
(* obj's value, or the schema's default when obj gives none (undefined).   *)
Product(obj, id, createdAt) ==
    [path \in DocPaths |->
        IF path = "_id" THEN id
        ELSE IF path = "createdAt" THEN createdAt
        ELSE IF path = "type" /\ IsUndefined(path, obj[path]) THEN "Veg"
        ELSE obj[path]]

NoDoc == <<>>

(***************************************************************************)
(* S3: routes/productRoutes.js, uploadToS3 and the key of deleteObject.    *)
(***************************************************************************)
Host == "bucket.s3.region.amazonaws.com"

(* `products/${Date.now()}-${file.originalname}`                           *)
UploadKey(clock, originalname) ==
    <<Seg(<<"products">>), TsSeg(clock, originalname[1])>>
    \o [i \in 1..(Len(originalname) - 1) |-> Seg(originalname[i + 1])]

(* AWS.util.uriEscape on the characters of the model: encodeURIComponent.  *)
EscapeOf(c) ==
    IF c = " " THEN <<"%", "20">>
    ELSE IF c = "%" THEN <<"%", "25">>
    ELSE <<c>>

RECURSIVE uriEscape(_)
uriEscape(text) ==
    IF text = <<>> THEN <<>> ELSE EscapeOf(Head(text)) \o uriEscape(Tail(text))

(* AWS.util.uriEscapePath: every segment escaped, the '/' kept.  The       *)
(* digits and the '-' of a timestamp prefix are left alone.                *)
uriEscapePath(key) == [i \in DOMAIN key |-> [key[i] EXCEPT !.s = uriEscape(@)]]

(* uploadResult.Location of a single-part upload (a body of at most 5 MiB):*)
(* protocol, host and the escaped path of the PutObject request.           *)
Location(key) ==
    <<Seg(<<"https:">>), Seg(<<>>), Seg(<<Host>>)>> \o uriEscapePath(key)

(* imageUrl.split('/').slice(-2).join('/')                                 *)
OldKey(imageUrl) ==
    IF Len(imageUrl) <= 2 THEN imageUrl
    ELSE SubSeq(imageUrl, Len(imageUrl) - 1, Len(imageUrl))

(***************************************************************************)
(* Requests.                                                               *)
(***************************************************************************)
Body(itemName, sellPrice, type, primaryUnit, customUnit, gstEnabled) ==
    [itemName |-> itemName, sellPrice |-> sellPrice, type |-> type,
     primaryUnit |-> primaryUnit, customUnit |-> customUnit,
     gstEnabled |-> gstEnabled]

BaseBody == Body(<<"T">>, Numeral(300), "Veg", "piece", Undefined, "true")

ValidBodies ==
    { BaseBody,
      [BaseBody EXCEPT !.sellPrice = Numeral(100000)],
      [BaseBody EXCEPT !.gstEnabled = "false"] }

InvalidBodies ==
    { [BaseBody EXCEPT !.itemName = <<>>],
      [BaseBody EXCEPT !.itemName = <<" ">>],
      [BaseBody EXCEPT !.sellPrice = Numeral(-1000)],
      [BaseBody EXCEPT !.sellPrice = NotANumber],
      [BaseBody EXCEPT !.type = "Fish"],
      [BaseBody EXCEPT !.type = Undefined],
      [BaseBody EXCEPT !.primaryUnit = "box"] }

Bodies == ValidBodies \cup InvalidBodies

(* Valid fields with another itemName, to be trimmed.                      *)
RenamedBody ==
    [BaseBody EXCEPT !.itemName = <<" ", "U">>, !.sellPrice = Numeral(100000)]

(* An image of exactly the size limit: multer accepts it.                  *)
ImageFile == File(<<<<"a.png">>>>, <<"image", "png">>, FileSizeLimit)

(* An image whose name holds a space.                                      *)
SpacedFile == File(<<<<"a", " ", "b.png">>>>, <<"image", "png">>, 1024)

Files ==
    { NoFile, ImageFile,
      File(<<<<"n.txt">>>>, <<"text", "plain">>, 1024),
      File(<<<<"a.png">>>>, <<"image", "png">>, FileSizeLimit + 1) }

(* The prices of the model's pricing computations.                        *)
PriceInputs == {Numeral(10 * c) : c \in 0..MaxCents} \cup {Numeral(100000)}

GstInputs == {"true", "false", Undefined}

(* The GST details of POST and of PUT for the sellPrice and gstEnabled of *)
(* the valid request bodies.  They depend on the two fields only: the      *)
(* handlers read them from this function, which is computed once.          *)
Pricings ==
    [route \in {"post", "put"},
     sellPrice \in {body.sellPrice : body \in ValidBodies},
     gstEnabled \in {body.gstEnabled : body \in ValidBodies} |->
        IF route = "post" THEN CreatePricing(sellPrice, gstEnabled)
        ELSE UpdatePricing(sellPrice, gstEnabled)]

(***************************************************************************)
(* State.                                                                  *)
(***************************************************************************)
VARIABLES
    records,  \* the products collection: _id -> document
    assets,   \* the bucket: the keys that hold an object
    now,      \* Date.now()
    nextId,   \* the next ObjectId
    procs,    \* the requests in flight
    calc,     \* a computation on its own: pricing, or the key of an upload
    priced    \* the GST details of the prices that requests carry

vars == <<records, assets, now, nextId, procs, calc, priced>>

NoResp == [status |-> 0, kind |-> "none", product |-> NoDoc, errors |-> {}]

IdleProc ==
    [pc |-> "idle", op |-> "none", id |-> 0, body |-> BaseBody, file |-> NoFile,
     key |-> <<>>, oldKey |-> <<>>, doc |-> NoDoc, delta |-> {},
     calls |-> <<>>, resp |-> NoResp]

NoCalc == [sellPrice |-> Numeral(0), gstEnabled |-> Undefined, by |-> "none",
           out |-> CreatePricing(Numeral(0), Undefined)]

Init ==
    /\ records = <<>>
    /\ assets = {}
    /\ now = 1
    /\ nextId = 1
    /\ procs = [p \in Procs |-> IdleProc]
    /\ calc = NoCalc
    /\ priced = Pricings

Call(name, key, ok) == [call |-> name, key |-> key, ok |-> ok]

(* res.status(status).json(...): the handler is over and its locals are    *)
(* gone; what is left is the request, its store calls and its response.    *)
(* kind is the shape of the JSON body: "errors" {errors: errors.array()},  *)
(* "failed" {error, details}, "notfound" {error: 'Product not found'},     *)
(* "ok" {message, product}, "handler" the general error handler's.         *)
Respond(pr, status, kind, product) ==
    [IdleProc EXCEPT !.pc = "done", !.op = pr.op, !.id = pr.id,
                     !.body = pr.body, !.file = pr.file, !.calls = pr.calls,
                     !.resp = [status |-> status, kind |-> kind, product |-> product,
                               errors |-> IF kind = "errors"
                                          THEN validateProduct(pr.body) ELSE {}]]

(* Date.now() moves on, up to a limit of the model.                        *)
Advance(limit) ==
    /\ now < limit
    /\ now' = now + 1
    /\ UNCHANGED <<records, assets, nextId, procs, calc, priced>>

Tick == Advance(MaxClock)

(* The response has been sent; the slot serves the next request.           *)
Return(p) ==
    /\ procs[p].pc = "done"
    /\ procs' = [procs EXCEPT ![p] = IdleProc]
    /\ UNCHANGED <<records, assets, now, nextId, calc, priced>>

(***************************************************************************)
(* POST /products                                                          *)
(***************************************************************************)
(* Lines 78-111: the object handed to new Product, and the document made   *)
(* of it.  barcode is Math.random()'s.                                     *)
NewProduct(body, imageUrl, barcode, id, clock) ==
    LET pr == priced["post", body.sellPrice, body.gstEnabled]
    IN  Product([itemName      |-> body.itemName,
                 sellPrice     |-> pr.sellPriceFloat,
                 type          |-> body.type,
                 primaryUnit   |-> body.primaryUnit,
                 customUnit    |-> body.customUnit,
                 gstEnabled    |-> body.gstEnabled = "true",
                 gstPercentage |-> pr.gstPercentage,
                 gstAmount     |-> pr.gstAmount,
                 totalPrice    |-> pr.totalPrice,
                 barcode       |-> barcode,
                 imageUrl      |-> imageUrl],
                id, clock)

Barcodes == 0..1

(* The creates that will draw an ObjectId when their upload settles: the   *)
(* model stops accepting creates when the ids of its limit are spoken for. *)
UploadingCreates == Cardinality({q \in Procs : procs[q].pc = "c_upload"})

(* The request arrives: multer, the validators, and the handler up to its  *)
(* first store call (s3.upload, or newProduct.save() when no file came).   *)
AcceptCreate(p, body, file, limit) ==
    /\ procs[p].pc = "idle"
    /\ LET pr0 == [IdleProc EXCEPT !.op = "create", !.body = body, !.file = file]
       IN  IF uploadSingle(file) # "ok"
           THEN /\ procs' = [procs EXCEPT ![p] = Respond(pr0, 500, "handler", NoDoc)]
                /\ UNCHANGED nextId
           ELSE IF validateProduct(body) # {}
           THEN /\ procs' = [procs EXCEPT ![p] = Respond(pr0, 400, "errors", NoDoc)]
                /\ UNCHANGED nextId
           ELSE IF file.present
           THEN /\ nextId + UploadingCreates <= limit
                /\ procs' = [procs EXCEPT ![p] =
                      [pr0 EXCEPT !.pc = "c_upload",
                                  !.key = UploadKey(now, file.originalname)]]
                /\ UNCHANGED nextId
           ELSE /\ nextId + UploadingCreates <= limit
                /\ \E barcode \in Barcodes :
                     procs' = [procs EXCEPT ![p] =
                       [pr0 EXCEPT !.pc = "c_save",
                                   !.doc = NewProduct(Sanitized(body), NullUrl,
                                                      barcode, nextId, now)]]
                /\ nextId' = nextId + 1
    /\ UNCHANGED <<records, assets, now, calc, priced>>

CreateRequest(p, body, file) == AcceptCreate(p, body, file, MaxRecords)

(* uploadToS3 swallowing the error of s3.upload and returning null.        *)
CreateUpload_SwallowsError(p, ok) ==
    LET pr == procs[p]
    IN  /\ pr.pc = "c_upload"
        /\ assets' = IF ok THEN assets \cup {pr.key} ELSE assets
        /\ procs' = [procs EXCEPT ![p] =
             [pr EXCEPT !.pc = "c_save",
                        !.calls = Append(@, Call("upload", pr.key, ok)),
                        !.doc = NewProduct(Sanitized(pr.body),
                                           IF ok THEN Location(pr.key) ELSE NullUrl,
                                           0, nextId, now)]]
        /\ nextId' = nextId + 1
        /\ UNCHANGED <<records, now, calc, priced>>

(* s3.upload(params).promise() settles.                                    *)
CreateUpload(p, ok) ==
    LET pr == procs[p]
    IN  /\ pr.pc = "c_upload"
        /\ IF ok
           THEN /\ assets' = assets \cup {pr.key}
                /\ \E barcode \in Barcodes :
                     procs' = [procs EXCEPT ![p] =
                       [pr EXCEPT !.pc = "c_save",
                                  !.calls = Append(@, Call("upload", pr.key, TRUE)),
                                  !.doc = NewProduct(Sanitized(pr.body), Location(pr.key),
                                                     barcode, nextId, now)]]
                /\ nextId' = nextId + 1
           ELSE /\ procs' = [procs EXCEPT ![p] =
                      Respond([pr EXCEPT !.calls = Append(@, Call("upload", pr.key, FALSE))],
                              400, "failed", NoDoc)]
                /\ UNCHANGED <<assets, nextId>>
        /\ UNCHANGED <<records, now, calc, priced>>

(* newProduct.save() settles.                                              *)
CreateSave(p, ok) ==
    LET pr == procs[p]
    IN  /\ pr.pc = "c_save"
        /\ IF ok
           THEN /\ records' = (pr.doc._id :> pr.doc) @@ records
                /\ procs' = [procs EXCEPT ![p] =
                      Respond([pr EXCEPT !.calls = Append(@, Call("save", <<>>, TRUE))],
                              201, "ok", pr.doc)]
           ELSE /\ procs' = [procs EXCEPT ![p] =
                      Respond([pr EXCEPT !.calls = Append(@, Call("save", <<>>, FALSE))],
                              400, "failed", NoDoc)]
                /\ UNCHANGED records
        /\ UNCHANGED <<assets, now, nextId, calc, priced>>

(***************************************************************************)
(* PUT /products/:id                                                       *)
(***************************************************************************)
UpdatedPaths ==
    {"sellPrice", "type", "primaryUnit", "customUnit", "gstEnabled",
     "totalPrice", "imageUrl"}

(* The assignments with one more: existingProduct.itemName = itemName.     *)
Assign_WithItemName(existing, body, imageUrl) ==
    LET pr == priced["put", body.sellPrice, body.gstEnabled]
    IN  [existing EXCEPT !.itemName    = body.itemName,
                         !.sellPrice   = pr.sellPriceFloat,
                         !.type        = body.type,
                         !.primaryUnit = body.primaryUnit,
                         !.customUnit  = body.customUnit,
                         !.gstEnabled  = body.gstEnabled = "true",
                         !.totalPrice  = pr.totalPrice,
                         !.imageUrl    = imageUrl]

(* Lines 166-191: existingProduct after the assignments.  gstPercentage    *)
(* and gstAmount are no paths of the schema: assigning them sets nothing   *)
(* that save() writes.                                                     *)
Assign(existing, body, imageUrl) ==
    LET pr == priced["put", body.sellPrice, body.gstEnabled]
    IN  [existing EXCEPT !.sellPrice   = pr.sellPriceFloat,
                         !.type        = body.type,
                         !.primaryUnit = body.primaryUnit,
                         !.customUnit  = body.customUnit,
                         !.gstEnabled  = body.gstEnabled = "true",
                         !.totalPrice  = pr.totalPrice,
                         !.imageUrl    = imageUrl]

(* The paths Mongoose marks modified: those assigned a different value.    *)
Modified(old, new) == {path \in DocPaths : old[path] # new[path]}

UpdateRequest(p, id, body, file) ==
    /\ procs[p].pc = "idle"
    /\ LET pr0 == [IdleProc EXCEPT !.op = "update", !.id = id,
                                   !.body = body, !.file = file]
       IN  procs' = [procs EXCEPT ![p] =
             IF uploadSingle(file) # "ok" THEN Respond(pr0, 500, "handler", NoDoc)
             ELSE IF validateProduct(body) # {} THEN Respond(pr0, 400, "errors", NoDoc)
             ELSE [pr0 EXCEPT !.pc = "u_find"]]
    /\ UNCHANGED <<records, assets, now, nextId, calc, priced>>

(* The handler without its check of a missing document: reading imageUrl   *)
(* of null throws, and the catch answers 400.                              *)
UpdateFind_NoNullCheck(p, ok) ==
    LET pr  == procs[p]
        pr1 == [pr EXCEPT !.calls = Append(@, Call("findById", <<>>, ok /\ pr.id # BadId))]
    IN  /\ pr.pc = "u_find"
        /\ procs' = [procs EXCEPT ![p] =
             IF pr.id = BadId \/ ~ok \/ pr.id \notin DOMAIN records
             THEN Respond(pr1, 400, "failed", NoDoc)
             ELSE LET existing == records[pr.id]
                  IN  IF pr.file.present
                      THEN [pr1 EXCEPT !.pc = "u_upload", !.doc = existing,
                                       !.key = UploadKey(now, pr.file.originalname)]
                      ELSE LET new == Assign(existing, Sanitized(pr.body), existing.imageUrl)
                           IN  [pr1 EXCEPT !.pc = "u_save", !.doc = new,
                                           !.delta = Modified(existing, new)]]
        /\ UNCHANGED <<records, assets, now, nextId, calc, priced>>

(* Product.findById(productId) settles: a string that is no ObjectId is a  *)
(* CastError.  With a document found the handler runs on to its next store *)
(* call.                                                                   *)
UpdateFind(p, ok) ==
    LET pr  == procs[p]
        pr1 == [pr EXCEPT !.calls = Append(@, Call("findById", <<>>, ok /\ pr.id # BadId))]
    IN  /\ pr.pc = "u_find"
        /\ procs' = [procs EXCEPT ![p] =
             IF pr.id = BadId \/ ~ok THEN Respond(pr1, 400, "failed", NoDoc)
             ELSE IF pr.id \notin DOMAIN records THEN Respond(pr1, 404, "notfound", NoDoc)
             ELSE LET existing == records[pr.id]
                  IN  IF pr.file.present
                      THEN IF Truthy(existing.imageUrl)
                           THEN [pr1 EXCEPT !.pc = "u_delete", !.doc = existing,
                                            !.oldKey = OldKey(existing.imageUrl)]
                           ELSE [pr1 EXCEPT !.pc = "u_upload", !.doc = existing,
                                            !.key = UploadKey(now, pr.file.originalname)]
                      ELSE LET new == Assign(existing, Sanitized(pr.body), existing.imageUrl)
                           IN  [pr1 EXCEPT !.pc = "u_save", !.doc = new,
                                           !.delta = Modified(existing, new)]]
        /\ UNCHANGED <<records, assets, now, nextId, calc, priced>>

(* s3.deleteObject of the old image settles; a failure is only logged.     *)
UpdateDeleteOld(p, ok) ==
    LET pr == procs[p]
    IN  /\ pr.pc = "u_delete"
        /\ assets' = IF ok THEN assets \ {pr.oldKey} ELSE assets
        /\ procs' = [procs EXCEPT ![p] =
             [pr EXCEPT !.pc = "u_upload",
                        !.calls = Append(@, Call("deleteObject", pr.oldKey, ok)),
                        !.key = UploadKey(now, pr.file.originalname)]]
        /\ UNCHANGED <<records, now, nextId, calc, priced>>

(* A failed upload that keeps the old imageUrl and saves all the same.     *)
UpdateUpload_SavesOnFailure(p, ok) ==
    LET pr  == procs[p]
        new == Assign(pr.doc, Sanitized(pr.body),
                      IF ok THEN Location(pr.key) ELSE pr.doc.imageUrl)
    IN  /\ pr.pc = "u_upload"
        /\ assets' = IF ok THEN assets \cup {pr.key} ELSE assets
        /\ procs' = [procs EXCEPT ![p] =
             [pr EXCEPT !.pc = "u_save", !.doc = new,
                        !.delta = Modified(pr.doc, new),
                        !.calls = Append(@, Call("upload", pr.key, ok))]]
        /\ UNCHANGED <<records, now, nextId, calc, priced>>

(* s3.upload of the new image settles.                                     *)
UpdateUpload(p, ok) ==
    LET pr == procs[p]
    IN  /\ pr.pc = "u_upload"
        /\ assets' = IF ok THEN assets \cup {pr.key} ELSE assets
        /\ procs' = [procs EXCEPT ![p] =
             IF ok
             THEN LET new == Assign(pr.doc, Sanitized(pr.body), Location(pr.key))
                  IN  [pr EXCEPT !.pc = "u_save", !.doc = new,
                                 !.delta = Modified(pr.doc, new),
                                 !.calls = Append(@, Call("upload", pr.key, TRUE))]
             ELSE Respond([pr EXCEPT !.calls = Append(@, Call("upload", pr.key, FALSE))],
                          400, "failed", NoDoc)]
        /\ UNCHANGED <<records, now, nextId, calc, priced>>

(* existingProduct.save() settles.  Mongoose sends the modified paths      *)
(* only ($set; with no path modified it only checks that the document      *)
(* exists), and reports DocumentNotFoundError when the document is gone.   *)
UpdateSave(p, ok) ==
    LET pr == procs[p]
    IN  /\ pr.pc = "u_save"
        /\ IF ok /\ pr.id \in DOMAIN records
           THEN /\ records' = [records EXCEPT ![pr.id] =
                      [path \in DocPaths |->
                          IF path \in pr.delta THEN pr.doc[path] ELSE @[path]]]
                /\ procs' = [procs EXCEPT ![p] =
                      Respond([pr EXCEPT !.calls = Append(@, Call("save", <<>>, TRUE))],
                              200, "ok", pr.doc)]
           ELSE /\ procs' = [procs EXCEPT ![p] =
                      Respond([pr EXCEPT !.calls = Append(@, Call("save", <<>>, FALSE))],
                              400, "failed", NoDoc)]
                /\ UNCHANGED records
        /\ UNCHANGED <<assets, now, nextId, calc, priced>>

(***************************************************************************)
(* DELETE /products/:id                                                    *)
(***************************************************************************)
DeleteRequest(p, id) ==
    /\ procs[p].pc = "idle"
    /\ procs' = [procs EXCEPT ![p] =
          [IdleProc EXCEPT !.op = "delete", !.id = id, !.pc = "d_find"]]
    /\ UNCHANGED <<records, assets, now, nextId, calc, priced>>

(* Product.findById(productId) settles.                                    *)
DeleteFind(p, ok) ==
    LET pr  == procs[p]
        pr1 == [pr EXCEPT !.calls = Append(@, Call("findById", <<>>, ok /\ pr.id # BadId))]
    IN  /\ pr.pc = "d_find"
        /\ procs' = [procs EXCEPT ![p] =
             IF pr.id = BadId \/ ~ok THEN Respond(pr1, 500, "failed", NoDoc)
             ELSE IF pr.id \notin DOMAIN records THEN Respond(pr1, 404, "notfound", NoDoc)
             ELSE LET product == records[pr.id]
                  IN  IF Truthy(product.imageUrl)
                      THEN [pr1 EXCEPT !.pc = "d_delete", !.doc = product,
                                       !.oldKey = OldKey(product.imageUrl)]
                      ELSE [pr1 EXCEPT !.pc = "d_remove", !.doc = product]]
        /\ UNCHANGED <<records, assets, now, nextId, calc, priced>>

(* deleteObject without its own try/catch: a failure reaches the outer     *)
(* catch.                                                                  *)
DeleteImage_Aborts(p, ok) ==
    LET pr == procs[p]
    IN  /\ pr.pc = "d_delete"
        /\ assets' = IF ok THEN assets \ {pr.oldKey} ELSE assets
        /\ procs' = [procs EXCEPT ![p] =
             IF ok
             THEN [pr EXCEPT !.pc = "d_remove",
                             !.calls = Append(@, Call("deleteObject", pr.oldKey, ok))]
             ELSE Respond([pr EXCEPT !.calls = Append(@, Call("deleteObject", pr.oldKey, ok))],
                          500, "failed", NoDoc)]
        /\ UNCHANGED <<records, now, nextId, calc, priced>>

(* s3.deleteObject of the image settles; a failure is only logged.         *)
DeleteImage(p, ok) ==
    LET pr == procs[p]
    IN  /\ pr.pc = "d_delete"
        /\ assets' = IF ok THEN assets \ {pr.oldKey} ELSE assets
        /\ procs' = [procs EXCEPT ![p] =
             [pr EXCEPT !.pc = "d_remove",
                        !.calls = Append(@, Call("deleteObject", pr.oldKey, ok))]]
        /\ UNCHANGED <<records, now, nextId, calc, priced>>

(* Product.findByIdAndDelete(productId) settles: the removed document, or  *)
(* null when there is none any more.                                       *)
DeleteRemove(p, ok) ==
    LET pr == procs[p]
    IN  /\ pr.pc = "d_remove"
        /\ IF ok
           THEN /\ records' = [id \in DOMAIN records \ {pr.id} |-> records[id]]
                /\ procs' = [procs EXCEPT ![p] =
                      Respond([pr EXCEPT !.calls = Append(@, Call("findByIdAndDelete", <<>>, TRUE))],
                              200, "ok",
                              IF pr.id \in DOMAIN records THEN records[pr.id] ELSE NoDoc)]
           ELSE /\ procs' = [procs EXCEPT ![p] =
                      Respond([pr EXCEPT !.calls = Append(@, Call("findByIdAndDelete", <<>>, FALSE))],
                              500, "failed", NoDoc)]
                /\ UNCHANGED records
        /\ UNCHANGED <<assets, now, nextId, calc, priced>>

(***************************************************************************)
(* GET /products                                                           *)
(***************************************************************************)
ListRequest(p) ==
    /\ procs[p].pc = "idle"
    /\ procs' = [procs EXCEPT ![p] = [IdleProc EXCEPT !.op = "list", !.pc = "l_find"]]
    /\ UNCHANGED <<records, assets, now, nextId, calc, priced>>

(* sort({ createdAt: -1 }): the orders of the ids in which createdAt never *)
(* increases.  MongoDB fixes no order among documents of equal createdAt.  *)
SortedByCreatedAt(recs) ==
    {s \in [1..Cardinality(DOMAIN recs) -> DOMAIN recs] :
        /\ \A i, j \in DOMAIN s : i # j => s[i] # s[j]
        /\ \A i, j \in DOMAIN s :
              i < j => recs[s[i]].createdAt >= recs[s[j]].createdAt}

(* Product.find().sort({ createdAt: -1 }) settles.                         *)
ListFind(p, ok) ==
    LET pr  == procs[p]
        pr1 == [pr EXCEPT !.calls = Append(@, Call("find", <<>>, ok))]
    IN  /\ pr.pc = "l_find"
        /\ IF ok
           THEN \E s \in SortedByCreatedAt(records) :
                  procs' = [procs EXCEPT ![p] =
                    Respond(pr1, 200, "list", [i \in DOMAIN s |-> records[s[i]]])]
           ELSE procs' = [procs EXCEPT ![p] = Respond(pr1, 500, "failed", NoDoc)]
        /\ UNCHANGED <<records, assets, now, nextId, calc, priced>>

(***************************************************************************)
(* The pricing computations on their own, over every price of the model.   *)
(***************************************************************************)
InitPricing ==
    /\ records = <<>>
    /\ assets = {}
    /\ now = 1
    /\ nextId = 1
    /\ procs = [p \in Procs |-> IdleProc]
    /\ priced = Pricings
    /\ \E sp \in PriceInputs, g \in GstInputs :
         calc = [NoCalc EXCEPT !.sellPrice = sp, !.gstEnabled = g]

PriceCreate ==
    /\ calc.by = "none"
    /\ calc' = [calc EXCEPT !.by = "create",
                            !.out = CreatePricing(calc.sellPrice, calc.gstEnabled)]
    /\ UNCHANGED <<records, assets, now, nextId, procs, priced>>

PriceUpdate ==
    /\ calc.by = "none"
    /\ calc' = [calc EXCEPT !.by = "update",
                            !.out = UpdatePricing(calc.sellPrice, calc.gstEnabled)]
    /\ UNCHANGED <<records, assets, now, nextId, procs, priced>>

NextPricing == PriceCreate \/ PriceUpdate

SpecPricing == InitPricing /\ [][NextPricing]_vars

(***************************************************************************)
(* The key computations on their own, over the file names of the model:    *)
(* the key and the Location of an upload, and the key that Update and      *)
(* Delete derive from the stored imageUrl.                                 *)
(***************************************************************************)
NameChunks == {"a", ".png", " "}

NameTexts ==
    UNION {[1..n -> NameChunks] : n \in 1..MaxNameChunks}

(* The filename of a file part as a client sends it: one or two segments.  *)
FileNames ==
    {<<t>> : t \in NameTexts} \cup {<<t, u>> : t \in NameTexts, u \in NameTexts}

NoKeys ==
    [by |-> "none", filename |-> <<>>, clock |-> 0, file |-> NoFile,
     key |-> <<>>, imageUrl |-> NullUrl, oldKey |-> <<>>]

InitKeys ==
    /\ records = <<>>
    /\ assets = {}
    /\ now = 1
    /\ nextId = 1
    /\ procs = [p \in Procs |-> IdleProc]
    /\ priced = Pricings
    /\ \E filename \in FileNames, clock \in 1..MaxClock :
         calc = [NoKeys EXCEPT !.filename = filename, !.clock = clock]

(* multer and uploadToS3: the key and the URL stored as imageUrl.          *)
KeyUpload ==
    /\ calc.by = "none"
    /\ LET file == File(calc.filename, <<"image", "png">>, 1024)
           key  == UploadKey(calc.clock, file.originalname)
       IN  calc' = [calc EXCEPT !.by = "uploaded", !.file = file, !.key = key,
                                !.imageUrl = Location(key)]
    /\ UNCHANGED <<records, assets, now, nextId, procs, priced>>

(* Update and Delete: the key handed to s3.deleteObject.                   *)
KeyDerive ==
    /\ calc.by = "uploaded"
    /\ calc' = [calc EXCEPT !.by = "derived", !.oldKey = OldKey(calc.imageUrl)]
    /\ UNCHANGED <<records, assets, now, nextId, procs, priced>>

NextKeys == KeyUpload \/ KeyDerive

SpecKeys == InitKeys /\ [][NextKeys]_vars

(***************************************************************************)
(* The server: any request at any time, every store call free to fail.     *)
(***************************************************************************)
Serve(P, B, F, I) ==
    \E p \in P :
         \/ Return(p)
         \/ \E body \in B, file \in F : CreateRequest(p, body, file)
         \/ \E id \in I, body \in B, file \in F : UpdateRequest(p, id, body, file)
         \/ \E id \in I : DeleteRequest(p, id)
         \/ \E ok \in BOOLEAN :
              \/ CreateUpload(p, ok)
              \/ CreateSave(p, ok)
              \/ UpdateFind(p, ok)
              \/ UpdateDeleteOld(p, ok)
              \/ UpdateUpload(p, ok)
              \/ UpdateSave(p, ok)
              \/ DeleteFind(p, ok)
              \/ DeleteImage(p, ok)
              \/ DeleteRemove(p, ok)

(* Concurrent requests with valid fields, with and without an image.       *)
Next == Tick \/ Serve(Procs, {BaseBody}, {NoFile, ImageFile}, Ids)

Spec == Init /\ [][Next]_vars

(* One request at a time, with every kind of field and file.               *)
NextSeq == Tick \/ Serve({1}, Bodies, Files, Ids)

SpecSeq == Init /\ [][NextSeq]_vars

(* One request at a time, with images whose names URI escaping leaves      *)
(* alone and rewrites.                                                     *)
NextNames == Tick \/ Serve({1}, {BaseBody}, {NoFile, ImageFile, SpacedFile}, Ids)

SpecNames == Init /\ [][NextNames]_vars

(* One request at a time on a catalogue of up to MaxListed products        *)
(* without images, listed at any time.                                     *)
NextList ==
    \/ Advance(MaxListClock)
    \/ Return(1)
    \/ AcceptCreate(1, BaseBody, NoFile, MaxListed)
    \/ \E id \in 1..MaxListed, body \in ValidBodies : UpdateRequest(1, id, body, NoFile)
    \/ \E id \in 1..MaxListed : DeleteRequest(1, id)
    \/ ListRequest(1)
    \/ \E ok \in BOOLEAN :
         \/ CreateSave(1, ok)
         \/ UpdateFind(1, ok)
         \/ UpdateSave(1, ok)
         \/ DeleteFind(1, ok)
         \/ DeleteRemove(1, ok)
         \/ ListFind(1, ok)

SpecList == Init /\ [][NextList]_vars

(* Concurrent requests that differ in their fields.                        *)
NextPair ==
    Tick \/ Serve(Procs, {BaseBody, [BaseBody EXCEPT !.sellPrice = Numeral(100000)]},
                  {NoFile, ImageFile}, Ids)

SpecPair == Init /\ [][NextPair]_vars

(***************************************************************************)
(* Properties.                                                             *)
(***************************************************************************)
Done(p) == procs[p].pc = "done"

CallsOf(p, name) == {i \in 1..Len(procs[p].calls) : procs[p].calls[i].call = name}

(* The request made no call that changes the bucket or the collection.     *)
NoMutation(p) ==
    \A i \in 1..Len(procs[p].calls) : procs[p].calls[i].call = "findById"

(* C1: after any sequence and interleaving of Create, Update and Delete    *)
(* in which store calls may fail (no request is in the middle of its       *)
(* calls), every persisted record whose imageUrl is non-empty references   *)
(* an object that is present in the asset store.                           *)
C1_ImageUrlReferencesAsset ==
    (\A p \in Procs : procs[p].pc \in {"idle", "done"})
    => \A id \in DOMAIN records :
         Truthy(records[id].imageUrl)
             => \E key \in assets : Location(key) = records[id].imageUrl

(* The reference rule of the pricing engine, in exact decimal arithmetic,  *)
(* a price in thousandths, the results in hundredths: round(x, 2) rounds   *)
(* to the nearest hundredth, a half upwards.                               *)
RefGstAmount(mills, gstEnabled) ==
    IF gstEnabled THEN (5 * mills + 500) \div 1000 ELSE 0

RefTotalPrice(mills, gstEnabled) ==
    (mills + 10 * RefGstAmount(mills, gstEnabled) + 5) \div 10

(* C2: every persisted record carries gstPercentage = 5 if gstEnabled else *)
(* 0, gstAmount = round(sellPrice * 0.05, 2) if gstEnabled else 0 and      *)
(* totalPrice = round(sellPrice + gstAmount, 2), computed from its own     *)
(* sellPrice and gstEnabled.                                               *)
C2_DerivedPricingConsistent ==
    \A id \in DOMAIN records :
        LET d == records[id]
        IN  /\ "gstPercentage" \in DOMAIN d
            /\ d.gstPercentage = (IF d.gstEnabled THEN 5 ELSE 0)
            /\ "gstAmount" \in DOMAIN d
            /\ d.gstAmount = RefGstAmount(d.sellPrice, d.gstEnabled)
            /\ d.totalPrice = RefTotalPrice(d.sellPrice, d.gstEnabled)

(* C3: the pricing computation of Create and of Update agrees with the     *)
(* reference rule for every price: gstPercentage 5 or 0, gstAmount =       *)
(* round(sellPrice * 0.05, 2) or 0, totalPrice = round(sellPrice +         *)
(* gstAmount, 2); 100 with GST gives 5.00 and 105.00; Create and Update    *)
(* compute the same.                                                       *)
C3_PricingAgreesWithReference ==
    calc.by # "none" =>
        LET enabled == calc.gstEnabled = "true"
            mills   == calc.sellPrice.mills
        IN  /\ calc.out.gstPercentage = (IF enabled THEN 5 ELSE 0)
            /\ calc.out.gstAmount = RefGstAmount(mills, enabled)
            /\ calc.out.totalPrice = RefTotalPrice(mills, enabled)
            /\ (mills = 100000 /\ enabled
                  => calc.out.gstAmount = 500 /\ calc.out.totalPrice = 10500)
            /\ CreatePricing(calc.sellPrice, calc.gstEnabled)
                 = UpdatePricing(calc.sellPrice, calc.gstEnabled)

(* The fields that the rules of the catalogue reject.                      *)
ViolatedFields(body) ==
    {f \in {"itemName"} : \A i \in 1..Len(body.itemName) : body.itemName[i] = " "}
    \cup {f \in {"sellPrice"} : body.sellPrice.kind # "numeral" \/ body.sellPrice.mills < 0}
    \cup {f \in {"type"} :
            body.type \notin {"Veg", "Non-Veg", "Beverage", "Starter", "Dessert", "Breads"}}
    \cup {f \in {"primaryUnit"} :
            body.primaryUnit # Undefined
            /\ body.primaryUnit \notin {"piece", "kg", "gram", ""}}

(* C4: a Create whose fields fail validation fails with a validation error *)
(* and makes no asset-store call and no record-store write, also when a    *)
(* valid image is attached.                                                *)
C4_InvalidCreateTouchesNothing ==
    \A p \in Procs :
        (/\ procs[p].op = "create"
         /\ uploadSingle(procs[p].file) = "ok"
         /\ ViolatedFields(procs[p].body) # {})
        => /\ Done(p)
           /\ procs[p].resp.status = 400
           /\ procs[p].resp.kind = "errors"
           /\ procs[p].resp.errors = ViolatedFields(procs[p].body)
           /\ procs[p].calls = <<>>

C4_Witness ==
    \E p \in Procs :
        /\ Done(p) /\ procs[p].op = "create"
        /\ procs[p].file = ImageFile
        /\ procs[p].resp.errors = {"primaryUnit"}
        /\ procs[p].calls = <<>>

HasCall(p, name, ok) ==
    \E i \in CallsOf(p, name) : procs[p].calls[i].ok = ok

(* C5: if the image upload of a Create fails, the Create fails and makes   *)
(* no record: it never calls save.                                         *)
C5_FailedUploadCreatesNoRecord ==
    \A p \in Procs :
        (procs[p].op = "create" /\ HasCall(p, "upload", FALSE))
        => /\ Done(p)
           /\ procs[p].resp.status = 400
           /\ procs[p].resp.kind = "failed"
           /\ CallsOf(p, "save") = {}

C5_Witness ==
    \E p \in Procs :
        /\ Done(p) /\ procs[p].op = "create"
        /\ HasCall(p, "upload", FALSE)
        /\ procs[p].resp.status = 400

(* C6: when a Create has uploaded its image and its save fails, it deletes *)
(* the asset it uploaded before it reports the failure.                    *)
C6_FailedSaveRollsBackUpload ==
    \A p \in Procs :
        (/\ Done(p) /\ procs[p].op = "create"
         /\ HasCall(p, "upload", TRUE) /\ HasCall(p, "save", FALSE))
        => \E i \in CallsOf(p, "upload"), j \in CallsOf(p, "deleteObject") :
              /\ i < j
              /\ procs[p].calls[j].key = procs[p].calls[i].key
              /\ procs[p].calls[j].ok

IsKeyOf(key, imageUrl) == Location(key) = imageUrl

(* C8: in an Update that brings a new image for a record that has one, the *)
(* delete of the previous asset's key comes before the upload of the new   *)
(* asset; and when the upload fails the Update fails without writing the   *)
(* record.                                                                 *)
C8_DeleteBeforeUpload ==
    \A p \in Procs :
        procs[p].op = "update" =>
            /\ (procs[p].pc = "u_upload" /\ Truthy(procs[p].doc.imageUrl))
               => /\ CallsOf(p, "upload") = {}
                  /\ \E j \in CallsOf(p, "deleteObject") :
                        IsKeyOf(procs[p].calls[j].key, procs[p].doc.imageUrl)
            /\ \A i \in CallsOf(p, "upload"), j \in CallsOf(p, "deleteObject") : j < i
            /\ HasCall(p, "upload", FALSE)
               => /\ Done(p)
                  /\ procs[p].resp.status = 400
                  /\ procs[p].resp.kind = "failed"
                  /\ CallsOf(p, "save") = {}

C8_Witness ==
    \E p \in Procs :
        /\ Done(p) /\ procs[p].op = "update"
        /\ HasCall(p, "deleteObject", TRUE)
        /\ HasCall(p, "upload", FALSE)
        /\ procs[p].id \in DOMAIN records
        /\ Truthy(records[procs[p].id].imageUrl)

(* C9: in an Update that brings a new image, a failed delete of the        *)
(* previous asset does not abort: the new image is still uploaded, and     *)
(* when upload and save succeed the Update succeeds and the persisted      *)
(* record's imageUrl is the URL of the new asset.                          *)
C9_DeleteFailureDoesNotAbort ==
    [][\A p \in Procs :
         (procs[p].op = "update" /\ HasCall(p, "deleteObject", FALSE))
         => /\ procs[p].pc = "u_upload" \/ CallsOf(p, "upload") # {}
            /\ (procs[p].pc = "u_save" /\ HasCall(p, "upload", TRUE)
                /\ procs'[p].pc = "done" /\ procs'[p].calls[Len(procs'[p].calls)].ok)
               => /\ procs'[p].resp.status = 200
                  /\ procs[p].id \in DOMAIN records'
                  /\ \E i \in CallsOf(p, "upload") :
                        records'[procs[p].id].imageUrl = Location(procs[p].calls[i].key)
      ]_vars

(* C10: a Delete of an existing record attempts the asset delete exactly   *)
(* when the record's imageUrl is non-empty, then removes the record        *)
(* whether the asset delete succeeded or failed; after a Delete that       *)
(* reports success no record with that id remains.  (Which key the asset   *)
(* delete names is C17's matter.)                                          *)
C10_DeleteRemovesRecord ==
    \A p \in Procs :
        procs[p].op = "delete" =>
            /\ procs[p].pc = "d_delete" => Truthy(procs[p].doc.imageUrl)
            /\ procs[p].pc = "d_remove"
               => (Truthy(procs[p].doc.imageUrl) <=> CallsOf(p, "deleteObject") # {})
            /\ CallsOf(p, "deleteObject") # {}
               => procs[p].pc = "d_remove" \/ CallsOf(p, "findByIdAndDelete") # {}
            /\ (Done(p) /\ procs[p].resp.status = 200)
               => /\ HasCall(p, "findByIdAndDelete", TRUE)
                  /\ procs[p].id \notin DOMAIN records

C10_Witness ==
    \E p \in Procs :
        /\ Done(p) /\ procs[p].op = "delete"
        /\ HasCall(p, "deleteObject", FALSE)
        /\ procs[p].resp.status = 200
        /\ procs[p].resp.product # NoDoc

(* A file that is no image, or that is larger than 5 MiB.                  *)
RejectedFile(file) ==
    /\ file.present
    /\ \/ Len(file.mimetype) < 2
       \/ file.mimetype[1] # "image"
       \/ file.size > 5 * 1024 * 1024

(* C11: a Create with a file that is no image, or that exceeds 5 MiB, is   *)
(* rejected before field validation (the answer is not the validation      *)
(* error, also when the fields are invalid) and before any asset-store or  *)
(* record-store call: nothing is uploaded and no record is created.        *)
C11_BadFileRejectedFirst ==
    \A p \in Procs :
        (procs[p].op = "create" /\ RejectedFile(procs[p].file))
        => /\ Done(p)
           /\ procs[p].resp.kind = "handler"
           /\ procs[p].resp.errors = {}
           /\ procs[p].resp.status >= 400
           /\ procs[p].calls = <<>>

C11_Witness ==
    \E p \in Procs :
        /\ Done(p) /\ procs[p].op = "create"
        /\ procs[p].file.present /\ procs[p].file.size > FileSizeLimit
        /\ ViolatedFields(procs[p].body) # {}
        /\ procs[p].resp.kind = "handler"
        /\ records = <<>> /\ assets = {}

(* C12: any two distinct uploads that stored an object, of Create or of    *)
(* Update, one after the other or concurrent, stored it under distinct     *)
(* keys, also when they carry the same original filename at the same clock *)
(* reading.                                                                *)
C12_UploadKeysDistinct ==
    \A p, q \in Procs :
        \A i \in CallsOf(p, "upload"), j \in CallsOf(q, "upload") :
            (/\ p # q \/ i # j
             /\ procs[p].calls[i].ok /\ procs[q].calls[j].ok)
            => procs[p].calls[i].key # procs[q].calls[j].key

(* C13: when two concurrent Updates of one id have both succeeded, the     *)
(* persisted record carries, in every path an Update writes, the values of *)
(* one of the two Updates (the one that wrote last), never a mixture.      *)
C13_LastUpdateWins ==
    \A p, q \in Procs :
        (/\ p # q
         /\ Done(p) /\ procs[p].op = "update" /\ procs[p].resp.status = 200
         /\ Done(q) /\ procs[q].op = "update" /\ procs[q].resp.status = 200
         /\ procs[p].id = procs[q].id
         /\ procs[p].id \in DOMAIN records)
        => \E r \in {p, q} :
              \A path \in UpdatedPaths :
                  records[procs[r].id][path] = procs[r].resp.product[path]

(* C14: every record persisted by a successful Create carries the barcode  *)
(* generated during that Create, and so does the record returned to the    *)
(* caller.                                                                 *)
C14_RecordCarriesBarcode ==
    /\ \A id \in DOMAIN records :
          /\ "barcode" \in DOMAIN records[id]
          /\ records[id].barcode \in Barcodes
    /\ \A p \in Procs :
          (Done(p) /\ procs[p].op = "create" /\ procs[p].resp.status = 201)
          => /\ "barcode" \in DOMAIN procs[p].resp.product
             /\ procs[p].resp.product.barcode \in Barcodes

(* A list response names every persisted record exactly once.              *)
ListsEveryRecordOnce(list) ==
    /\ Len(list) = Cardinality(DOMAIN records)
    /\ \A id \in DOMAIN records :
          \E i \in DOMAIN list :
              /\ list[i] = records[id]
              /\ \A j \in DOMAIN list : list[j]._id = id => j = i

(* C15, as stated: List returns every persisted record exactly once, the   *)
(* one created later before the one created earlier (after creating A, B,  *)
(* C: [C, B, A]), also after an Update of an older record.  (One request   *)
(* at a time: ids are given in the order of creation.)                     *)
C15_ListNewestFirst ==
    \A p \in Procs :
        (Done(p) /\ procs[p].op = "list" /\ procs[p].resp.status = 200)
        => LET list == procs[p].resp.product
           IN  /\ ListsEveryRecordOnce(list)
               /\ \A i, j \in DOMAIN list : i < j => list[i]._id > list[j]._id

(* C15, what the route does guarantee: List returns every persisted record *)
(* exactly once, in an order in which createdAt never increases, so that   *)
(* of two records created at different clock readings the later one comes  *)
(* first.  No Update changes createdAt: it stays in the order of creation. *)
C15_ListByCreatedAt ==
    /\ \A a, b \in DOMAIN records :
          a < b => records[a].createdAt <= records[b].createdAt
    /\ \A p \in Procs :
          (Done(p) /\ procs[p].op = "list" /\ procs[p].resp.status = 200)
          => LET list == procs[p].resp.product
             IN  /\ ListsEveryRecordOnce(list)
                 /\ \A i, j \in DOMAIN list :
                       /\ i < j => list[i].createdAt >= list[j].createdAt
                       /\ (i < j /\ list[i].createdAt # list[j].createdAt)
                          => list[i]._id > list[j]._id

(* Three records created at three clock readings, the oldest updated       *)
(* since, listed newest first.                                             *)
C15_Witness ==
    \E p \in Procs :
        /\ Done(p) /\ procs[p].op = "list" /\ procs[p].resp.status = 200
        /\ LET list == procs[p].resp.product
           IN  /\ Len(list) = 3
               /\ list[1]._id = 3 /\ list[2]._id = 2 /\ list[3]._id = 1
               /\ list[1].createdAt > list[2].createdAt
               /\ list[2].createdAt > list[3].createdAt
               /\ list[3].sellPrice # list[2].sellPrice

(* A call to the asset store or the record store that failed, other than   *)
(* the tolerated delete of an old image and the lookup of a malformed id.  *)
StoreCallFailed(p) ==
    \E i \in DOMAIN procs[p].calls :
        /\ ~procs[p].calls[i].ok
        /\ \/ procs[p].calls[i].call \in {"upload", "save", "findByIdAndDelete", "find"}
           \/ procs[p].calls[i].call = "findById" /\ procs[p].id # BadId

(* C16: the status of a response is determined by the outcome: 400 for a   *)
(* rejected file, invalid fields or a malformed id; 500 when an            *)
(* asset-store or record-store call fails, in particular the upload or the *)
(* save of a Create or an Update; 404 when the lookup finds no record; 201 *)
(* for a successful Create and 200 for a successful Update, Delete, List.  *)
C16_StatusByOutcome ==
    \A p \in Procs :
        Done(p) =>
            LET pr == procs[p]
                writes == pr.op \in {"create", "update"}
            IN  pr.resp.status =
                  IF writes /\ RejectedFile(pr.file) THEN 400
                  ELSE IF writes /\ ViolatedFields(pr.body) # {} THEN 400
                  ELSE IF StoreCallFailed(p) THEN 500
                  ELSE IF HasCall(p, "findById", FALSE) THEN 400
                  ELSE IF pr.op \in {"update", "delete"} /\ Len(pr.calls) = 1 THEN 404
                  ELSE IF pr.op = "create" THEN 201
                  ELSE 200

(* C17: for every upload, the key that Update and Delete derive from the   *)
(* stored imageUrl (its last two '/'-separated segments) is the key under  *)
(* which the asset was uploaded, for every filename of the model, those    *)
(* that a client sends with a '/' included.                                *)
C17_KeyRoundTrip ==
    calc.by = "derived" => calc.oldKey = calc.key

(* C18: every persisted record's imageUrl is the empty string or the URL   *)
(* of an upload; a product created without an image has the empty string   *)
(* (not null), and keeps it across Updates that bring no image.            *)
C18_ImageUrlEmptyOrUploaded ==
    \A id \in DOMAIN records :
        \/ records[id].imageUrl = EmptyString
        \/ \E clock \in 1..MaxClock, file \in {ImageFile, SpacedFile} :
              records[id].imageUrl = Location(UploadKey(clock, file.originalname))

(* C19: of two concurrent Deletes of one existing id, under every          *)
(* interleaving, at most one reports success, and a Delete that reports    *)
(* success returns the record it removed, never an absent one.             *)
C19_OneDeleteSucceeds ==
    \A p \in Procs :
        (Done(p) /\ procs[p].op = "delete" /\ procs[p].resp.status = 200)
        => /\ procs[p].resp.product # NoDoc
           /\ \A q \in Procs \ {p} :
                 ~ (/\ Done(q) /\ procs[q].op = "delete"
                    /\ procs[q].id = procs[p].id
                    /\ procs[q].resp.status = 200)

(* One request at a time, with fields that differ in itemName and price.  *)
NextFrame == Tick \/ Serve({1}, {BaseBody, RenamedBody}, {NoFile, ImageFile}, Ids)

SpecFrame == Init /\ [][NextFrame]_vars

=============================================================================
